---- MODULE Spec2Model ----
(***************************************************************************)
(* Model of email_to_telegram (src/main.py): the poll loop of main(), the  *)
(* per-sender scan process_messages_from_one_sender(), and the process     *)
(* entry point with its two except clauses.  The mail store (IMAPClient)   *)
(* and the chat client (telebot) are the environment: each of their calls  *)
(* either returns or raises.                                               *)
(***************************************************************************)
EXTENDS Integers, Sequences, FiniteSets, TLC

(* ---------------------------- bounds ----------------------------------- *)
\* number of messages that ever arrive in the mailbox
MaxUid == 2
\* number of passes of the while-True loop that are explored
MaxCycles == 2

(* ------------------------ program constants ---------------------------- *)
\* src/main.py:123  len(text) > 4096
TextCap == 4096
\* src/main.py:124  text[0:4095]
CutEnd == 4095
\* src/main.py:116  len("No text/plain was found in multipart email!")
SentinelLen == 43
\* src/main.py:121  len(" wrote: ")
InfixLen == 8

(* --------------------------- environment ------------------------------- *)
\* the configured sender lists that are explored (special_senders)
SenderLists == { <<"a@x.io", "b@x.io">>, <<"a@x.io", "a@x.io">> }

\* a body part: content type, whether its bytes are valid UTF-8, and its
\* length in characters once decoded
Plain(n) == [ctype |-> "text/plain", valid |-> TRUE, len |-> n]
BadPlain == [ctype |-> "text/plain", valid |-> FALSE, len |-> 5]
HtmlPart == [ctype |-> "text/html", valid |-> TRUE, len |-> 5]

\* payload lengths: short, the longest that still fits the cap behind a
\* six-character address, and one more than that
BodyLens == { 5, TextCap - InfixLen - 6, TextCap - InfixLen - 5 }

\* the message structures that arrive: single part text/plain, single part
\* text/html, multipart with a text/plain part after an html part, multipart
\* without any text/plain part
Single(p) == [multipart |-> FALSE, parts |-> <<p>>]
Multi(ps) == [multipart |-> TRUE, parts |-> ps]

Structures ==
    { Single(Plain(n)) : n \in BodyLens }
    \cup { Single(BadPlain), Single(HtmlPart),
           Multi(<<HtmlPart, Plain(5)>>), Multi(<<HtmlPart>>) }

\* a From header: the bare address parseaddr() finds in it and the search
\* keys it matches ("a@x.io <b@x.io>" matches both keys and parses to b@x.io)
Headers ==
    { [from |-> "a@x.io", hits |-> {"a@x.io"}],
      [from |-> "b@x.io", hits |-> {"b@x.io"}],
      [from |-> "b@x.io", hits |-> {"a@x.io", "b@x.io"}] }

Mail(h, s) == [from |-> h.from, hits |-> h.hits, body |-> s]

\* the messages that arrive: every structure from the first sender, and a
\* short plain message under every header
Mails ==
    { Mail([from |-> "a@x.io", hits |-> {"a@x.io"}], s) : s \in Structures }
    \cup { Mail(h, Single(Plain(5))) : h \in Headers }

VARIABLES
    special_senders,  \* email_settings.special_senders
    mailbox,          \* the INBOX: sequence of messages, the index is the UID
    seen,             \* UIDs carrying the \SEEN flag in the store
    pc,               \* position of the process
    cycle,            \* number of the current pass of the while loop
    server,           \* the session object of this pass: "none", "open", "closed"
    idx,              \* index of the for loop over special_senders
    messages,         \* result of server.search in the running scan
    todo,             \* items of the fetch response not yet iterated
    cur,              \* UID of the message of the running iteration, 0 if none
    text,             \* the text of the running iteration
    warned,           \* warnings logged in the running iteration
    exc,              \* the exception that is propagating, "none" if none
    cause,            \* the first exception that was raised, "none" if none
    \* ---- observation of the calls made (history) ----
    delivered,        \* UIDs whose send_message call returned
    failedSend,       \* UIDs whose send_message call raised
    selected,         \* select_folder was called in this pass
    sendCalls,        \* number of send_message calls in this pass
    scanned,          \* indexes of special_senders searched in this pass
    logoutCalls,      \* number of logout calls in this pass
    mailThis,         \* mail has arrived since this pass began
    mailPrev,         \* mail arrived during the previous pass
    lastCall,         \* the latest collaborator call and its outcome
    flagCalls,        \* per UID: set_flags calls of this pass that name it
    sendCount,        \* per UID: send_message calls of this pass made for it
    intAt             \* the positions at which interrupts arrived

vars == << special_senders, mailbox, seen, pc, cycle, server, idx, messages,
           todo, cur, text, warned, exc, cause, delivered, failedSend,
           selected, sendCalls, scanned, logoutCalls, mailThis, mailPrev,
           lastCall, flagCalls, sendCount, intAt >>

ctl == << pc, idx, messages, todo, cur, text, warned, exc, cause >>
hist == << delivered, failedSend, selected, sendCalls, scanned, logoutCalls >>
obs == << flagCalls, sendCount, intAt >>

\* no call counted yet for any UID
NoCalls == [u \in 1..MaxUid |-> 0]

\* one more call counted for every UID of the set
Counted(f, uids) == [u \in 1..MaxUid |-> IF u \in uids THEN f[u] + 1 ELSE f[u]]

NoText == [from |-> "", body |-> "none", uid |-> 0, full |-> 0, len |-> 0]

Range(s) == { s[k] : k \in 1..Len(s) }

(* ----------------- process_messages_from_one_sender: pure parts -------- *)

\* server.search(["UNSEEN", ["FROM", sender]]): the UIDs, ascending, of the
\* messages without \SEEN whose From header matches the key
RECURSIVE SearchFrom(_, _, _, _)
SearchFrom(mb, sn, sender, k) ==
    IF k > Len(mb) THEN << >>
    ELSE IF k \notin sn /\ sender \in mb[k].hits
         THEN <<k>> \o SearchFrom(mb, sn, sender, k + 1)
         ELSE SearchFrom(mb, sn, sender, k + 1)

\* a search without the UNSEEN criterion
SearchAnyFlag(mb, sn, sender) == SearchFrom(mb, {}, sender, 1)

Search(mb, sn, sender) == SearchFrom(mb, sn, sender, 1)

\* msg.is_multipart at line 110 is the bound method, not its result: the
\* condition is true for every message
IsMultipartCond(msg) == TRUE

\* msg.walk(): the message itself, then its sub-parts when it is a container
Walk(msg) ==
    IF msg.body.multipart
    THEN << [ctype |-> "multipart/mixed", valid |-> TRUE, len |-> 0] >> \o msg.body.parts
    ELSE msg.body.parts

\* position in walk() of the first text/plain part, 0 when the loop runs out
RECURSIVE FirstPlain(_, _)
FirstPlain(ps, k) ==
    IF k > Len(ps) THEN 0
    ELSE IF ps[k].ctype = "text/plain" THEN k
    ELSE FirstPlain(ps, k + 1)

\* get_payload(decode=True).decode("utf-8") of one part
DecodePart(p) ==
    IF p.valid
    THEN [ok |-> TRUE, kind |-> "payload", len |-> p.len, warned |-> FALSE]
    ELSE [ok |-> FALSE, kind |-> "payload", len |-> 0, warned |-> FALSE]

\* a decoding in which a message without a text/plain part is an error
DecodeBodyStrict(msg) ==
    LET k == FirstPlain(Walk(msg), 1)
    IN  IF k # 0
        THEN DecodePart(Walk(msg)[k])
        ELSE [ok |-> FALSE, kind |-> "sentinel", len |-> 0, warned |-> TRUE]

\* lines 110-119: the body of one message
DecodeBody(msg) ==
    IF IsMultipartCond(msg)
    THEN LET k == FirstPlain(Walk(msg), 1)
         IN  IF k # 0
             THEN DecodePart(Walk(msg)[k])
             ELSE [ok |-> TRUE, kind |-> "sentinel", len |-> SentinelLen, warned |-> TRUE]
    ELSE DecodePart(msg.body.parts[1])

\* a formatting that leaves out the "{sender} wrote: " prefix
FormatTextBare(uid, from, b) ==
    [from |-> from, body |-> b.kind, uid |-> uid, full |-> b.len, len |-> b.len]

\* line 121: f"{sender} wrote: {body}".  A text is the first len characters
\* of the formatted string of message uid, whose length is full
FormatText(uid, from, b) ==
    [from |-> from, body |-> b.kind, uid |-> uid,
     full |-> Len(from) + InfixLen + b.len,
     len |-> Len(from) + InfixLen + b.len]

\* text[0:hi]
SliceTo(t, hi) == [t EXCEPT !.len = IF t.len < hi THEN t.len ELSE hi]

\* a cut whose test lets a text of one character over the cap through
TruncateLate(t) == IF t.len > TextCap + 1 THEN SliceTo(t, CutEnd) ELSE t

\* lines 123-125
Truncate(t) == IF t.len > TextCap THEN SliceTo(t, CutEnd) ELSE t

\* a set_flags that leaves the store as it was
SetFlagsLost(sn, uids) == sn

\* server.set_flags(messages, "\\SEEN"): the flag is set on every UID of the
\* list that is passed
SetFlags(sn, uids) == sn \cup Range(uids)

(* ------------------------------ Init ----------------------------------- *)

Init ==
    /\ special_senders \in SenderLists
    /\ mailbox = << >>
    /\ seen = {}
    /\ pc = "connect"
    /\ cycle = 1
    /\ server = "none"
    /\ idx = 1
    /\ messages = << >>
    /\ todo = << >>
    /\ cur = 0
    /\ text = NoText
    /\ warned = FALSE
    /\ exc = "none"
    /\ cause = "none"
    /\ delivered = {}
    /\ failedSend = {}
    /\ selected = FALSE
    /\ sendCalls = 0
    /\ scanned = {}
    /\ logoutCalls = 0
    /\ mailThis = FALSE
    /\ mailPrev = FALSE
    /\ lastCall = "none"
    /\ flagCalls = NoCalls
    /\ sendCount = NoCalls
    /\ intAt = << >>

(* --------------------------- environment ------------------------------- *)

\* a message arrives in the INBOX, unseen, with the next UID
NewMail ==
    /\ Len(mailbox) < MaxUid
    /\ \E m \in Mails : mailbox' = Append(mailbox, m)
    /\ mailThis' = TRUE
    /\ UNCHANGED << special_senders, seen, cycle, server, ctl, hist, mailPrev, lastCall, obs >>

\* an exception leaves main(): the except clauses of the entry point end the
\* process (KeyboardInterrupt is logged, anything else is logged and re-raised)
Raise(e, at) ==
    /\ exc' = e
    /\ cause' = IF cause = "none" THEN e ELSE cause
    /\ pc' = at

(* ------------------------------ main ----------------------------------- *)

\* line 140: server = IMAPClient(host), at the top of a pass
Connect ==
    /\ pc = "connect"
    /\ selected' = FALSE
    /\ sendCalls' = 0
    /\ scanned' = {}
    /\ logoutCalls' = 0
    /\ mailPrev' = mailThis
    /\ mailThis' = FALSE
    /\ \/ /\ server' = "open"
          /\ pc' = "login"
          /\ lastCall' = "connect"
          /\ UNCHANGED << exc, cause >>
       \/ /\ server' = "none"
          /\ Raise("connect", "exit")
          /\ lastCall' = "connect!"
    /\ flagCalls' = NoCalls
    /\ sendCount' = NoCalls
    /\ UNCHANGED << special_senders, mailbox, seen, cycle, idx, messages, todo,
                    cur, text, warned, delivered, failedSend, intAt >>

\* line 141: server.login(...), outside the try statement
Login ==
    /\ pc = "login"
    /\ \/ /\ pc' = "select"
          /\ lastCall' = "login"
          /\ UNCHANGED << exc, cause >>
       \/ /\ Raise("login", "exit")
          /\ lastCall' = "login!"
    /\ UNCHANGED << special_senders, mailbox, seen, cycle, server, idx, messages,
                    todo, cur, text, warned, hist, mailThis, mailPrev, obs >>

\* line 145: server.select_folder("INBOX", readonly=False), first statement
\* of the try block; line 146 then starts the for loop
SelectFolder ==
    /\ pc = "select"
    /\ selected' = TRUE
    /\ \/ /\ pc' = "for_sender"
          /\ idx' = 1
          /\ lastCall' = "select"
          /\ UNCHANGED << exc, cause >>
       \/ /\ Raise("select", "logout")
          /\ idx' = idx
          /\ lastCall' = "select!"
    /\ UNCHANGED << special_senders, mailbox, seen, cycle, server, messages, todo,
                    cur, text, warned, delivered, failedSend, sendCalls, scanned,
                    logoutCalls, mailThis, mailPrev, obs >>

\* line 146: the for loop has no sender left, line 153, then the finally block
SendersDone ==
    /\ pc = "for_sender"
    /\ idx > Len(special_senders)
    /\ pc' = "logout"
    /\ UNCHANGED << special_senders, mailbox, seen, cycle, server, idx, messages,
                    todo, cur, text, warned, exc, cause, hist, mailThis,
                    mailPrev, lastCall, obs >>

\* lines 99-104: the search of one sender; an empty result returns at once
SearchSender ==
    /\ pc = "for_sender"
    /\ idx <= Len(special_senders)
    /\ scanned' = scanned \cup {idx}
    /\ \/ /\ messages' = Search(mailbox, seen, special_senders[idx])
          /\ lastCall' = "search"
          /\ UNCHANGED << exc, cause >>
          /\ IF messages' = << >>
             THEN pc' = "for_sender" /\ idx' = idx + 1
             ELSE pc' = "fetch" /\ idx' = idx
       \/ /\ Raise("search", "logout")
          /\ lastCall' = "search!"
          /\ UNCHANGED << messages, idx >>
    /\ UNCHANGED << special_senders, mailbox, seen, cycle, server, todo, cur, text,
                    warned, delivered, failedSend, selected, sendCalls, logoutCalls,
                    mailThis, mailPrev, obs >>

\* line 106: server.fetch(messages, "RFC822"), one request for the whole list;
\* .items() is iterated in the order of the response
Fetch ==
    /\ pc = "fetch"
    /\ \/ /\ todo' = messages
          /\ pc' = "for_msg"
          /\ lastCall' = "fetch"
          /\ UNCHANGED << exc, cause >>
       \/ /\ Raise("fetch", "logout")
          /\ lastCall' = "fetch!"
          /\ todo' = todo
    /\ UNCHANGED << special_senders, mailbox, seen, cycle, server, idx, messages,
                    cur, text, warned, hist, mailThis, mailPrev, obs >>

\* a scan that returns after an iteration although fetched items are left
MessagesDoneEarly ==
    /\ pc = "for_msg"
    /\ lastCall = "set_flags"
    /\ pc' = "for_sender"
    /\ idx' = idx + 1
    /\ cur' = 0
    /\ UNCHANGED << special_senders, mailbox, seen, cycle, server, messages, todo,
                    text, warned, exc, cause, hist, mailThis, mailPrev, lastCall, obs >>

\* line 106 exhausted, line 131: the scan of this sender returns
MessagesDone ==
    /\ pc = "for_msg"
    /\ todo = << >>
    /\ pc' = "for_sender"
    /\ idx' = idx + 1
    /\ cur' = 0
    /\ UNCHANGED << special_senders, mailbox, seen, cycle, server, messages, todo,
                    text, warned, exc, cause, hist, mailThis,
                    mailPrev, lastCall, obs >>

\* an iteration that goes on to set_flags although send_message raised
SendMessageSwallow ==
    /\ pc = "for_msg"
    /\ todo # << >>
    /\ LET uid == Head(todo)
           msg == mailbox[uid]
           b == DecodeBody(msg)
           t == Truncate(FormatText(uid, msg.from, b))
       IN  /\ cur' = uid
           /\ todo' = Tail(todo)
           /\ IF ~b.ok
              THEN /\ Raise("decode", "logout")
                   /\ UNCHANGED << text, warned, delivered, failedSend, sendCalls,
                                   lastCall, sendCount >>
              ELSE /\ text' = t
                   /\ sendCount' = Counted(sendCount, {uid})
                   /\ warned' = (b.warned \/ t.len # t.full)
                   /\ sendCalls' = sendCalls + 1
                   /\ pc' = "set_flags"
                   /\ UNCHANGED << exc, cause >>
                   /\ \/ /\ delivered' = delivered \cup {uid}
                         /\ failedSend' = failedSend
                         /\ lastCall' = "send"
                      \/ /\ failedSend' = failedSend \cup {uid}
                         /\ delivered' = delivered
                         /\ lastCall' = "send!"
    /\ UNCHANGED << special_senders, mailbox, seen, cycle, server, idx, messages,
                    selected, scanned, logoutCalls, mailThis, mailPrev, flagCalls,
                    intAt >>

\* lines 107-127: one iteration up to and including bot.send_message
SendMessage ==
    /\ pc = "for_msg"
    /\ todo # << >>
    /\ LET uid == Head(todo)
           msg == mailbox[uid]
           b == DecodeBody(msg)
           t == Truncate(FormatText(uid, msg.from, b))
       IN  /\ cur' = uid
           /\ todo' = Tail(todo)
           /\ IF ~b.ok
              THEN /\ Raise("decode", "logout")
                   /\ UNCHANGED << text, warned, delivered, failedSend, sendCalls,
                                   lastCall, sendCount >>
              ELSE /\ text' = t
                   /\ sendCount' = Counted(sendCount, {uid})
                   /\ warned' = (b.warned \/ t.len # t.full)
                   /\ sendCalls' = sendCalls + 1
                   /\ \/ /\ delivered' = delivered \cup {uid}
                         /\ failedSend' = failedSend
                         /\ pc' = "set_flags"
                         /\ lastCall' = "send"
                         /\ UNCHANGED << exc, cause >>
                      \/ /\ failedSend' = failedSend \cup {uid}
                         /\ delivered' = delivered
                         /\ Raise("send", "logout")
                         /\ lastCall' = "send!"
    /\ UNCHANGED << special_senders, mailbox, seen, cycle, server, idx, messages,
                    selected, scanned, logoutCalls, mailThis, mailPrev, flagCalls,
                    intAt >>

\* line 128: server.set_flags(messages, "\\SEEN"), then the next iteration
MarkSeen ==
    /\ pc = "set_flags"
    /\ flagCalls' = Counted(flagCalls, Range(messages))
    /\ \/ /\ seen' = SetFlags(seen, messages)
          /\ pc' = "for_msg"
          /\ lastCall' = "set_flags"
          /\ UNCHANGED << exc, cause >>
       \/ /\ Raise("set_flags", "logout")
          /\ lastCall' = "set_flags!"
          /\ seen' = seen
    /\ UNCHANGED << special_senders, mailbox, cycle, server, idx, messages, todo,
                    cur, text, warned, hist, mailThis, mailPrev, sendCount, intAt >>

\* lines 154-156: the finally block; a pending exception goes on to the entry
\* point afterwards, otherwise line 158 sleeps
Logout ==
    /\ pc = "logout"
    /\ logoutCalls' = logoutCalls + 1
    /\ \/ /\ server' = "closed"
          /\ lastCall' = "logout"
          /\ UNCHANGED << exc, cause >>
          /\ pc' = IF exc = "none" THEN "sleep" ELSE "exit"
       \/ /\ server' = server
          /\ Raise("logout", "exit")
          /\ lastCall' = "logout!"
    /\ UNCHANGED << special_senders, mailbox, seen, cycle, idx, messages, todo,
                    cur, text, warned, delivered, failedSend, selected, sendCalls,
                    scanned, mailThis, mailPrev, obs >>

\* line 158: time.sleep(repeat_timeout) returns, line 139 starts the next pass
Sleep ==
    /\ pc = "sleep"
    /\ cycle < MaxCycles
    /\ cycle' = cycle + 1
    /\ pc' = "connect"
    /\ UNCHANGED << special_senders, mailbox, seen, server, idx, messages, todo,
                    cur, text, warned, exc, cause, hist, mailThis,
                    mailPrev, lastCall, obs >>

\* a KeyboardInterrupt that leaves main() without running the finally block
InterruptSkipsFinally ==
    /\ pc # "exit"
    /\ Raise("interrupt", "exit")
    /\ intAt' = Append(intAt, pc)
    /\ UNCHANGED << special_senders, mailbox, seen, cycle, server, idx, messages,
                    todo, cur, text, warned, hist, mailThis, mailPrev, lastCall,
                    flagCalls, sendCount >>

\* KeyboardInterrupt is raised at whatever statement is running: inside the
\* try statement the finally block runs first, elsewhere the exception goes
\* straight to the entry point (lines 167-170)
Interrupt ==
    /\ pc # "exit"
    /\ Raise("interrupt",
             IF pc \in {"select", "for_sender", "fetch", "for_msg", "set_flags"}
             THEN "logout" ELSE "exit")
    /\ intAt' = Append(intAt, pc)
    /\ UNCHANGED << special_senders, mailbox, seen, cycle, server, idx, messages,
                    todo, cur, text, warned, hist, mailThis, mailPrev, lastCall,
                    flagCalls, sendCount >>

Next ==
    \/ NewMail
    \/ Connect
    \/ Login
    \/ SelectFolder
    \/ SendersDone
    \/ SearchSender
    \/ Fetch
    \/ MessagesDone
    \/ SendMessage
    \/ MarkSeen
    \/ Logout
    \/ Sleep
    \/ Interrupt

Spec == Init /\ [][Next]_vars

(* ============================ properties =============================== *)

\* the pass has ended: the process sleeps or has left main()
CycleOver == pc \in {"sleep", "exit"}

AllSenders == 1..Len(special_senders)

\* C1: every UID that carries the SEEN flag set by the program is a UID whose
\* own text was accepted by a send_message call that returned.
C1_SeenOnlyDelivered == seen \subseteq delivered

\* C2: when send_message raises for one message of a batch, every other
\* message of the batch is delivered and flagged in the same pass and the one
\* that failed is unseen when the pass is over.
C2_FailureSparesTheBatch ==
    (CycleOver /\ cause = "send")
        => /\ failedSend \cap seen = {}
           /\ \A u \in Range(messages) \ failedSend : u \in delivered /\ u \in seen

\* C3: at-least-once delivery rests on the unseen flag: when a pass is over
\* (no interrupt), a message from a configured sender that decodes and was
\* not handed to send_message with success, because the call failed or was
\* never made, is unseen, so that the search of a later pass finds it again.
C3_UndeliveredStaysUnseen ==
    (CycleOver /\ cause # "interrupt")
        => \A u \in 1..Len(mailbox) :
              ( /\ mailbox[u].hits \cap Range(special_senders) # {}
                /\ DecodeBody(mailbox[u]).ok
                /\ u \notin delivered )
                  => u \notin seen

\* C4: a failed login ends the pass without select_folder and without any
\* send_message call, and the process does not exit: it sleeps.
C4_LoginFailureSleeps ==
    (cause = "login") => (~selected /\ sendCalls = 0 /\ pc # "exit")

\* C5: an error of select_folder, search, fetch or set_flags ends only the
\* pass: the process reaches its end on an external interrupt alone.
C5_StoreErrorKeepsLooping ==
    (cause \in {"select", "search", "fetch", "set_flags"}) => pc # "exit"

\* C6: once the session object of a pass exists, logout is called on it on
\* every way out of the pass (no interrupt involved).
C6_LogoutOnEveryPath ==
    (CycleOver /\ server # "none" /\ cause # "interrupt") => logoutCalls > 0

\* C7: a formatted text longer than 4096 characters is handed to
\* send_message as its first 4096 characters exactly.
C7_CutToExactlyCap ==
    (sendCalls > 0 /\ text.full > TextCap) => text.len = TextCap

\* C8: a decoding error skips that one message, which stays unseen, and the
\* rest of the batch is delivered and flagged before the pass is over.
C8_DecodeErrorSkipsOne ==
    (CycleOver /\ cause = "decode")
        => /\ cur \notin seen
           /\ \A u \in Range(todo) : u \in delivered /\ u \in seen

\* C9: in a pass that reached the scan (select_folder returned, no
\* interrupt), every configured sender has been searched when the pass is
\* over, whatever was raised inside the scan of an earlier sender.
C9_EverySenderScanned ==
    (CycleOver /\ selected /\ cause \notin {"connect", "login", "select", "interrupt"})
        => scanned = AllSenders

\* C10: a pass that follows a pass in which every call returned (only such a
\* pass is followed by another) makes no send_message call when no mail has
\* arrived since that earlier pass connected.
C10_QuietPassSendsNothing ==
    (cycle >= 2 /\ pc # "connect" /\ ~mailPrev /\ ~mailThis) => sendCalls = 0

\* C10 witness: the second pass has run to its sleep over a mailbox whose
\* messages the first pass delivered, and has searched every sender
C10_Witness ==
    /\ cycle = 2
    /\ pc = "sleep"
    /\ ~mailPrev /\ ~mailThis
    /\ delivered # {}
    /\ scanned = AllSenders
    /\ sendCalls = 0

\* C11: set_flags names the UID of a delivered message exactly once in a
\* pass: no set_flags call names a UID before its own delivery has succeeded,
\* and none names it a second time afterwards.
C11_FlaggedExactlyOnce ==
    \A u \in 1..MaxUid :
        /\ flagCalls[u] <= 1
        /\ (flagCalls[u] > 0 => u \in delivered)

\* a multipart message none of whose parts is text/plain
NoPlainMultipart(msg) ==
    /\ msg.body.multipart
    /\ \A k \in 1..Len(msg.body.parts) : msg.body.parts[k].ctype # "text/plain"

\* C12: for a multipart message without a text/plain part the body is the
\* sentinel and a warning is logged; nothing is raised by the decoding, the
\* text handed to send_message is "{sender} wrote: {sentinel}" in full, and
\* once its set_flags call has returned the loop is back at the next message.
C12_SentinelForNoPlain ==
    (cur # 0 /\ NoPlainMultipart(mailbox[cur]))
        => /\ cause # "decode"
           /\ text.uid = cur
           /\ text.body = "sentinel"
           /\ text.full = Len(mailbox[cur].from) + InfixLen + SentinelLen
           /\ text.len = text.full
           /\ warned
           /\ sendCount[cur] > 0
           /\ (lastCall = "set_flags" /\ cause = "none") => pc = "for_msg"

\* C12 witness: such a message was delivered and flagged and the batch has a
\* next message to go on with
C12_Witness ==
    /\ cur # 0
    /\ NoPlainMultipart(mailbox[cur])
    /\ cur \in delivered
    /\ text.body = "sentinel"
    /\ lastCall = "set_flags"
    /\ pc = "for_msg"
    /\ todo # << >>

\* a single-part text/plain message whose payload is valid UTF-8
PlainSingle(msg) ==
    /\ ~msg.body.multipart
    /\ msg.body.parts[1].ctype = "text/plain"
    /\ msg.body.parts[1].valid

\* length of "{From address} wrote: {payload}" for a single-part message
FormattedLen(msg) == Len(msg.from) + InfixLen + msg.body.parts[1].len

\* C13: for a single-part plain-text message with From address a and body b
\* whose formatted text has at most 4096 characters, the text handed to
\* send_message is the whole of "a wrote: b", and once the set_flags call of
\* the iteration has returned the UID carries SEEN.
C13_PlainTextDelivered ==
    (cur # 0 /\ PlainSingle(mailbox[cur]) /\ FormattedLen(mailbox[cur]) <= TextCap)
        => /\ text = [from |-> mailbox[cur].from, body |-> "payload", uid |-> cur,
                      full |-> FormattedLen(mailbox[cur]),
                      len |-> FormattedLen(mailbox[cur])]
           /\ sendCount[cur] > 0
           /\ (lastCall = "set_flags" => cur \in seen)

\* C13 witness: a@x.io's five-character message was sent as the 19 characters
\* of "a@x.io wrote: hello" and flagged
C13_Witness ==
    /\ cur # 0
    /\ PlainSingle(mailbox[cur])
    /\ mailbox[cur].from = "a@x.io"
    /\ mailbox[cur].body.parts[1].len = 5
    /\ text.len = 19
    /\ cur \in delivered
    /\ lastCall = "set_flags"
    /\ cur \in seen

\* C14: the body of a single-part message, whatever its content type, is its
\* own payload decoded as UTF-8; the sentinel is never the body of a
\* single-part message.
C14_SinglePartIsDecoded ==
    (cur # 0 /\ ~mailbox[cur].body.multipart /\ text.uid = cur)
        => /\ text.body = "payload"
           /\ text.full = FormattedLen(mailbox[cur])

\* positions of the scan of one sender (lines 99-131 and the for loop of main)
ScanPcs == {"for_sender", "fetch", "for_msg", "set_flags"}

\* the process has ended on one interrupt that arrived during the scan, and
\* the logout of the finally block returned
EndedByInterruptInScan ==
    /\ pc = "exit"
    /\ cause = "interrupt"
    /\ Len(intAt) = 1
    /\ intAt[1] \in ScanPcs
    /\ lastCall # "logout!"

\* index of u in the sequence s, 0 if absent
Pos(s, u) == IF \E k \in 1..Len(s) : s[k] = u
             THEN CHOOSE k \in 1..Len(s) : s[k] = u
             ELSE 0

C16_SendersOneAtATime ==
    [][ (scanned' # scanned /\ scanned' # {})
          => /\ pc = "for_sender"
             /\ todo = << >>
             /\ scanned = 1..(idx - 1)
             /\ scanned' = 1..idx
             /\ lastCall \in {"select", "search", "set_flags"}
             /\ scanned # {}
                  => \A u \in Range(messages) : sendCount[u] = 1 /\ flagCalls[u] >= 1
      ]_vars

\* C16 witness: the search of the second sender has been issued, and found
\* mail, after the batch of the first sender was delivered and flagged
C16_Witness ==
    /\ scanned = {1, 2}
    /\ idx = 2
    /\ lastCall = "search"
    /\ pc = "fetch"
    /\ sendCalls > 0
    /\ delivered # {}

\* C17: every text handed to send_message has at most 4096 characters, and
\* a formatted text of at most 4096 characters is handed over whole.
C17_TextWithinCap ==
    (text # NoText)
        => /\ text.len <= TextCap
           /\ (text.full <= TextCap => text.len = text.full)

\* C17 witness: a formatted text of 4097 characters has been handed over cut
C17_Witness ==
    /\ lastCall = "send"
    /\ text.full = TextCap + 1
    /\ text.len < text.full
    /\ text.uid \in delivered

\* C18: every set_flags call directly follows a send_message call that
\* returned, in the same iteration and for a message of the list it passes,
\* with no other call in between; hence none is made in a scan in which no
\* send_message has returned.
C18_FlagRightAfterSend ==
    [][ (flagCalls' # flagCalls /\ flagCalls' # NoCalls)
          => /\ pc = "set_flags"
             /\ lastCall = "send"
             /\ cur \in delivered
             /\ sendCount[cur] = 1
             /\ cur \in Range(messages)
             /\ lastCall' \in {"set_flags", "set_flags!"}
      ]_vars

\* C18 witness: the one set_flags call of the pass has returned, after the
\* one send_message call of the pass
C18_Witness ==
    /\ lastCall = "set_flags"
    /\ sendCalls = 1
    /\ cur \in delivered
    /\ flagCalls[cur] = 1

\* C19: within one pass no UID is handed to send_message more than once,
\* also when a sender is configured twice or a message matches the search of
\* two configured senders, as long as no set_flags call of the pass has failed.
C19_SentAtMostOncePerPass ==
    (cause # "set_flags") => \A u \in 1..MaxUid : sendCount[u] <= 1

\* C19 witness: a pass has run to its sleep in which a message matched by the
\* searches of both configured senders was handed to send_message once
C19_Witness ==
    /\ pc = "sleep"
    /\ scanned = {1, 2}
    /\ \E u \in 1..Len(mailbox) :
          /\ \A i \in AllSenders : special_senders[i] \in mailbox[u].hits
          /\ sendCount[u] = 1
          /\ u \in seen

====
